---- MODULE Spec2Model ----
(***************************************************************************)
(* State-machine model of src/src/solvers.py: the VPINN training loop      *)
(* (VPINN_HelmholtzImpedance.train_, deriv, H1_error), the boundary        *)
(* penalty, the FEM assembly (FEM_HelmholtzImpedance.solve, rhs, __call__, *)
(* H1_error) and the exact evaluator's source dispatch                     *)
(* (Exact_HelmholtzImpedance.uG).                                          *)
(*                                                                         *)
(* Numbers are integers.  A loss is recorded in units of 1/(2*K), K the    *)
(* number of test functions, so that "mean over K" and "penalty / 2" stay  *)
(* exact: the recorded value is 2*K times the value the code computes,     *)
(* and has the same sign.                                                  *)
(* self.time_elapsed is not modelled: nothing read by train_ depends on it *)
(* except the minutes shown in the progress line.                          *)
(***************************************************************************)
EXTENDS Integers, Sequences, FiniteSets, TLC

VARIABLES
    \* ---- VPINN_HelmholtzImpedance ----
    prob,        \* k, a, b, ga, gb, penalty, K: the constructor's arguments
    epoch,       \* self.epoch
    history,     \* self.history: epochs, losses, errors
    training,    \* nn.Module.training (train() / eval())
    opt_steps,   \* optimizer.step() calls applied to the parameters
    sched_steps, \* scheduler.step() calls
    frame,       \* the running train_ call: pc, loop index, bounds, arguments
    calls,       \* log of the train_ calls that returned or raised
    \* ---- deriv called on its own ----
    dres,        \* outcome of the last deriv(n, x) call
    \* ---- boundary penalty on given boundary values ----
    bnd,         \* u(a), u_x(a), u(b), u_x(b), real and imaginary parts
    pen,         \* the penalty term computed from bnd
    \* ---- FEM_HelmholtzImpedance and Exact_HelmholtzImpedance ----
    fem,         \* N, source, A, d, c, sol, der
    fpc,         \* position of solve(): pc and the loop index i
    fres,        \* outcome of the last __call__ / H1_error / solve
    writes,      \* indices solve() has used on A, as written in the code
    nsolve,      \* solve() calls started
    exa,         \* exact evaluator: source and the outcome of the last uG
    \* ---- seeded construction ----
    rng,         \* state of torch's global random generator
    built        \* the solvers constructed: seed argument and initial parameters

vars == <<prob, epoch, history, training, opt_steps, sched_steps, frame, calls,
          dres, bnd, pen, fem, fpc, fres, writes, nsolve, exa, rng, built>>

vpinnVars == <<prob, epoch, history, training, opt_steps, sched_steps, frame, calls>>
femVars   == <<fem, fpc, fres, writes, nsolve, exa>>
seedVars  == <<rng, built>>

\* ------------------------------------------------------------------ bounds
MaxEpoch == 12      \* train_ is not started beyond this epoch index
MaxCalls == 2       \* train_ calls per solver
MaxOrder == 3       \* deriv orders tried: -1 .. MaxOrder
MaxN     == 3       \* FEM discretization: 1 .. MaxN
MaxSolve == 2       \* solve() calls per FEM solver
MaxRng   == 15      \* states of the global random generator: 0 .. MaxRng
MaxSeed  == 2       \* seed arguments tried: None and 0 .. MaxSeed
MaxBuilt == 2       \* solvers constructed

Sq(v) == v * v

\* ------------------------------------------------- function approximator
\* The approximator after t optimizer steps, as the computation graph of its
\* two outputs in the input x: coefficients of 1, x, x^2.  The optimizer is
\* deterministic, so the parameters are a function of the steps applied.
Mix(t, j) == ((t * (j + 1) + j * j) % 3) - 1

Params(t) == [re |-> <<Mix(t, 0), Mix(t, 1), Mix(t, 2)>>,
              im |-> <<Mix(t, 3), Mix(t, 4), Mix(t, 5)>>]

\* forward: the graph of the outputs f[:, 0] and f[:, 1]
forward(t) == Params(t)

\* torch.autograd.grad(g, x, create_graph=True): the graph of dg/dx
AutogradGrad(g) == <<g[2], 2 * g[3], 0>>

\* value of a graph at the point x
At(g, x) == g[1] + g[2] * x + g[3] * x * x

\* deriv without the test of n: every order goes on to the forward pass
derivUnchecked(n, x, t) ==
    LET f      == forward(t)
        f_x_re == AutogradGrad(f.re)
        f_x_im == AutogradGrad(f.im)
        f_xx_re == AutogradGrad(f_x_re)
        f_xx_im == AutogradGrad(f_x_im)
    IN  CASE n = 0 -> [raised |-> FALSE, fwd |-> 1, grads |-> 0,
                       re |-> At(f.re, x), im |-> At(f.im, x)]
          [] n = 1 -> [raised |-> FALSE, fwd |-> 1, grads |-> 2,
                       re |-> At(f_x_re, x), im |-> At(f_x_im, x)]
          [] n = 2 -> [raised |-> FALSE, fwd |-> 1, grads |-> 4,
                       re |-> At(f_xx_re, x), im |-> At(f_xx_im, x)]
          [] OTHER -> [raised |-> FALSE, fwd |-> 1, grads |-> 4,
                       re |-> 0, im |-> 0]

\* deriv(n, x): validation first, then forward, then n rounds of autograd.
\* fwd and grads count the forward evaluations and autograd.grad calls made.
deriv(n, x, t) ==
    IF n \notin {0, 1, 2}
    THEN [raised |-> TRUE, fwd |-> 0, grads |-> 0, re |-> 0, im |-> 0]
    ELSE LET f       == forward(t)
             f_x_re  == AutogradGrad(f.re)
             f_x_im  == AutogradGrad(f.im)
             f_xx_re == AutogradGrad(f_x_re)
             f_xx_im == AutogradGrad(f_x_im)
         IN  CASE n = 0 -> [raised |-> FALSE, fwd |-> 1, grads |-> 0,
                            re |-> At(f.re, x), im |-> At(f.im, x)]
               [] n = 1 -> [raised |-> FALSE, fwd |-> 1, grads |-> 2,
                            re |-> At(f_x_re, x), im |-> At(f_x_im, x)]
               [] n = 2 -> [raised |-> FALSE, fwd |-> 1, grads |-> 4,
                            re |-> At(f_xx_re, x), im |-> At(f_xx_im, x)]

\* ------------------------------------------------------------ the loss
\* loss_v(v_k): (R_k_re - F_k_re)^2 + (R_k_im - F_k_im)^2.  The weak-form
\* integrals depend on the test functions, which are external; the two
\* mismatches of test function k after t steps are taken from a fixed table.
loss_v(k, t) == Sq(Mix(t + k, 6)) + Sq(Mix(t, k + 6))

RECURSIVE SumLossV(_, _)
SumLossV(K, t) == IF K = 0 THEN 0 ELSE loss_v(K, t) + SumLossV(K - 1, t)

\* The four boundary residuals of train_, from boundary values b and problem p.
BoundaryResiduals(p, b) ==
    [ga_re |-> p.ga[1] + b.uxa[1] - p.k * b.ua[2],
     ga_im |-> p.ga[2] + b.uxa[2] + p.k * b.ua[1],
     gb_re |-> p.gb[1] + b.uxb[1] - p.k * b.ub[2],
     gb_im |-> p.gb[2] + b.uxb[2] + p.k * b.ub[1]]

\* 2 * pen, pen = penalty / 2 * (sum of the squared boundary residuals)
PenaltyTerm(p, b) ==
    LET r == BoundaryResiduals(p, b)
    IN  p.penalty * (Sq(r.ga_re) + Sq(r.ga_im) + Sq(r.gb_re) + Sq(r.gb_im))

\* boundary values of the approximator after t steps, through deriv
NetBoundary(p, t) ==
    [ua  |-> <<deriv(0, p.a, t).re, deriv(0, p.a, t).im>>,
     uxa |-> <<deriv(1, p.a, t).re, deriv(1, p.a, t).im>>,
     ub  |-> <<deriv(0, p.b, t).re, deriv(0, p.b, t).im>>,
     uxb |-> <<deriv(1, p.b, t).re, deriv(1, p.b, t).im>>]

\* 2 * K * loss of one epoch: the mean of loss_v over the K test functions,
\* plus pen when a penalty is configured (penalty 0 is stored as None).
Loss(p, t) ==
    2 * SumLossV(p.K, t)
      + (IF p.penalty # 0 THEN p.K * PenaltyTerm(p, NetBoundary(p, t)) ELSE 0)

\* H1_error: (err_u + err_u_x, err_u, err_u_x), two square roots of integrals
H1Parts(t) == [sol |-> Sq(Mix(t, 8)), der |-> Sq(Mix(t, 9)) + 1]

H1_error(t) == [tot |-> H1Parts(t).sol + H1Parts(t).der,
                sol |-> H1Parts(t).sol, der |-> H1Parts(t).der]

\* ------------------------------------------------------------- train_
NoErrors == [set |-> FALSE, tot |-> <<>>, sol |-> <<>>, der |-> <<>>]

IdleFrame == [pc |-> "idle", e |-> 0, last |-> 0, E |-> 0, exact |-> FALSE,
              sched |-> FALSE, entry |-> 0, opt0 |-> 0, hist0 |-> 0,
              processed |-> <<>>, stepModes |-> <<>>]

\* the adjustment without its "- 1" for a resumed solver
LastIndexNoResume(E, ep) == E + ep

\* epochs += self.epoch - 1 if self.epoch else self.epoch: the last index of
\* range(self.epoch, epochs + 1)
LastIndex(E, ep) == E + (IF ep # 0 THEN ep - 1 ELSE ep)

\* the snapshot test without its final-epoch disjunct
SnapshotEveryTen(e, last) == e % 10 = 0

\* if e % 10 == 0 or e == epochs
SnapshotDue(e, last) == e % 10 = 0 \/ e = last

\* the log entry of the call in frame f, ending with the given status after
\* the given number of optimizer steps, the history being h: the epoch
\* indices the call went through, the ones it put into the history, and the
\* mode (training or not) of the approximator at each optimizer step
CallRecord(f, status, steps, h) ==
    [E |-> f.E, entry |-> f.entry, last |-> f.last, exact |-> f.exact,
     sched |-> f.sched, status |-> status, steps |-> steps,
     processed |-> f.processed, stepModes |-> f.stepModes,
     recorded |-> SubSeq(h.epochs, f.hist0 + 1, Len(h.epochs))]

\* train_(testfunctions, epochs = E, optimizer, scheduler, exact): entry,
\* up to the first test of the loop
TrainBegin(E, sched, exact) ==
    /\ frame.pc = "idle"
    /\ Len(calls) < MaxCalls
    /\ epoch + E <= MaxEpoch
    /\ history' = IF exact /\ ~history.errors.set
                  THEN [history EXCEPT !.errors.set = TRUE]
                  ELSE history
    /\ training' = TRUE
    /\ frame' = [pc |-> "loop", e |-> epoch, last |-> LastIndex(E, epoch),
                 E |-> E, exact |-> exact, sched |-> sched, entry |-> epoch,
                 opt0 |-> opt_steps, hist0 |-> Len(history.epochs),
                 processed |-> <<>>, stepModes |-> <<>>]
    /\ UNCHANGED <<prob, epoch, opt_steps, sched_steps, calls>>

\* the history after the snapshot of epoch e with the given loss
Snapshot(h, e, loss, exact, t) ==
    LET h1 == [h EXCEPT !.epochs = Append(@, e), !.losses = Append(@, loss)]
    IN  IF exact
        THEN [h1 EXCEPT !.errors.tot = Append(@, H1_error(t).tot),
                        !.errors.sol = Append(@, H1_error(t).sol),
                        !.errors.der = Append(@, H1_error(t).der)]
        ELSE h1

\* scheduler.step() with the step skipped when no scheduler is given
SchedulerStepSkipped(sched) == FALSE

\* scheduler.step() raises AttributeError when scheduler is None
SchedulerStepRaises(sched) == ~sched

\* one iteration of the loop: loss, snapshot, optimizer step, scheduler
\* step, counter.  scheduler.step() on None raises and ends the call.
\* H1_error, called by the snapshot when exact is given, leaves the
\* approximator in evaluation mode (self.eval()).
TrainEpoch ==
    /\ frame.pc = "loop"
    /\ frame.e <= frame.last
    /\ LET e    == frame.e
           loss == Loss(prob, opt_steps)
           snap == SnapshotDue(e, frame.last)
           mode == IF snap /\ frame.exact THEN FALSE ELSE training
           f1   == [frame EXCEPT !.processed = Append(@, e),
                                 !.stepModes = Append(@, mode)]
       IN  /\ history' = IF snap
                         THEN Snapshot(history, e, loss, frame.exact, opt_steps)
                         ELSE history
           /\ training' = mode
           /\ opt_steps' = opt_steps + 1
           /\ IF ~SchedulerStepRaises(frame.sched)
              THEN /\ sched_steps' = IF frame.sched THEN sched_steps + 1
                                                    ELSE sched_steps
                   /\ epoch' = epoch + 1
                   /\ frame' = [f1 EXCEPT !.e = e + 1]
                   /\ calls' = calls
              ELSE /\ calls' = Append(calls,
                          CallRecord(f1, "raised", opt_steps' - frame.opt0,
                                     history'))
                   /\ frame' = IdleFrame
                   /\ UNCHANGED <<sched_steps, epoch>>
    /\ UNCHANGED prob

\* the loop is exhausted: train_ returns
TrainReturn ==
    /\ frame.pc = "loop"
    /\ frame.e > frame.last
    /\ calls' = Append(calls, CallRecord(frame, "done", opt_steps - frame.opt0,
                                   history))
    /\ frame' = IdleFrame
    /\ UNCHANGED <<prob, epoch, history, training, opt_steps, sched_steps>>

\* ------------------------------------------------------ initial states
\* the constructor's arguments tried: no penalty (None), a positive and a
\* negative penalty weight; one or two test functions
TrainProblems ==
    {[k |-> 1, a |-> 0, b |-> 1, ga |-> <<1, 0>>, gb |-> <<0, -1>>,
      penalty |-> c[1], K |-> c[2]] : c \in {<<0, 1>>, <<1, 2>>, <<-1, 1>>}}

NoBoundary == [ua |-> <<0, 0>>, uxa |-> <<0, 0>>, ub |-> <<0, 0>>, uxb |-> <<0, 0>>]

NoFem == [N |-> 1, source |-> "const", A |-> <<>>, d |-> <<>>,
          c |-> FALSE, sol |-> FALSE, der |-> FALSE]

\* VPINN_HelmholtzImpedance.__init__
VpinnInit ==
    /\ epoch = 0
    /\ history = [epochs |-> <<>>, losses |-> <<>>, errors |-> NoErrors]
    /\ training = TRUE
    /\ opt_steps = 0
    /\ sched_steps = 0
    /\ frame = IdleFrame
    /\ calls = <<>>

\* no FEM solver and no exact evaluator in use
NoFemInit ==
    /\ fem = NoFem
    /\ fpc = [pc |-> "idle", i |-> 0]
    /\ fres = [op |-> "none", out |-> "none"]
    /\ writes = {}
    /\ nsolve = 0
    /\ exa = [source |-> "const", uG |-> "none"]

\* no solver constructed with a seed
NoSeedInit ==
    /\ rng = 0
    /\ built = <<>>

Init ==
    /\ prob \in TrainProblems
    /\ VpinnInit
    /\ dres = [kind |-> "none", t |-> 0]
    /\ bnd = NoBoundary
    /\ pen = [kind |-> "none"]
    /\ NoFemInit
    /\ NoSeedInit

Next ==
    \/ \E E \in 0 .. MaxEpoch, sched \in BOOLEAN, exact \in BOOLEAN :
          /\ TrainBegin(E, sched, exact)
          /\ UNCHANGED <<dres, bnd, pen, femVars, seedVars>>
    \/ TrainEpoch /\ UNCHANGED <<dres, bnd, pen, femVars, seedVars>>
    \/ TrainReturn /\ UNCHANGED <<dres, bnd, pen, femVars, seedVars>>

Spec == Init /\ [][Next]_vars

\* ------------------------------------------- boundary penalty alone
\* The impedance conditions of the problem, on boundary values b:
\*   - u_x(a) - 1j * k * u(a) = ga,   + u_x(b) - 1j * k * u(b) = gb
ImpedanceAtA(p, b) ==
    /\ - b.uxa[1] + p.k * b.ua[2] = p.ga[1]
    /\ - b.uxa[2] - p.k * b.ua[1] = p.ga[2]

ImpedanceAtB(p, b) ==
    /\ b.uxb[1] + p.k * b.ub[2] = p.gb[1]
    /\ b.uxb[2] - p.k * b.ub[1] = p.gb[2]

\* values tried at b, and the smaller set tried at a
BValues == {-1, 0, 1}
AValues == {0, 1}

PenaltyProblems ==
    {[k |-> k, a |-> 0, b |-> 1, ga |-> ga, gb |-> gb, penalty |-> w, K |-> 1] :
        k \in {1, 2}, w \in {1, 2},
        ga \in {<<0, 0>>, <<1, 0>>, <<0, -1>>}, gb \in BValues \X BValues}

BoundaryValues ==
    {[ua |-> ua, uxa |-> uxa, ub |-> ub, uxb |-> uxb] :
        ua \in AValues \X AValues, uxa \in AValues \X AValues,
        ub \in BValues \X BValues, uxb \in BValues \X BValues}

\* the penalty branch of train_ (if self.penalty: ... loss += pen)
ComputePenalty ==
    /\ pen.kind = "none"
    /\ prob.penalty # 0
    /\ pen' = [kind |-> "value", val |-> PenaltyTerm(prob, bnd)]
    /\ UNCHANGED <<vpinnVars, dres, bnd, femVars, seedVars>>

InitPenalty ==
    /\ prob \in PenaltyProblems
    /\ bnd \in BoundaryValues
    /\ VpinnInit
    /\ dres = [kind |-> "none", t |-> 0]
    /\ pen = [kind |-> "none"]
    /\ NoFemInit
    /\ NoSeedInit

NextPenalty == ComputePenalty

SpecPenalty == InitPenalty /\ [][NextPenalty]_vars

\* ---------------------------------------------------- deriv on its own
XPoints == {-1, 0, 1, 2}

\* deriv(n, x) on the approximator after dres.t optimizer steps
DerivCall(n, x) ==
    /\ dres' = [kind |-> "called", t |-> dres.t, n |-> n, x |-> x,
                out |-> deriv(n, x, dres.t)]
    /\ UNCHANGED <<vpinnVars, bnd, pen, femVars, seedVars>>

InitDeriv ==
    /\ prob \in TrainProblems
    /\ VpinnInit
    /\ dres \in {[kind |-> "none", t |-> t] : t \in 0 .. MaxEpoch}
    /\ bnd = NoBoundary
    /\ pen = [kind |-> "none"]
    /\ NoFemInit
    /\ NoSeedInit

NextDeriv == \E n \in -1 .. MaxOrder, x \in XPoints : DerivCall(n, x)

SpecDeriv == InitDeriv /\ [][NextDeriv]_vars

\* ------------------------------------------------ FEM_HelmholtzImpedance
Sources == {"const", "func", "bogus"}

Nodes(N) == 0 .. N

\* __init__: A and d are zero, c, sol and der are None
NewFem(N, source) ==
    [N |-> N, source |-> source,
     A |-> [ij \in Nodes(N) \X Nodes(N) |-> 0],
     d |-> [j \in Nodes(N) |-> 0],
     c |-> FALSE, sol |-> FALSE, der |-> FALSE]

\* lhs(i, j) and rhs(j) when it returns: the integrals come from the external
\* basis functions; an entry is named by its indices and is not zero.
lhs(i, j) == 10 * (i + 1) + (j + 1)

rhs(j) == 100 + j

\* rhs(j) raises ValueError for a source that is neither 'const' nor 'func'
RhsRaises(f) == f.source \notin {"const", "func"}

\* numpy's A[i, j] on an (N + 1) x (N + 1) array: a negative index counts from
\* the end, an index beyond the array raises IndexError
NumpyIndex(j, N) == IF j < 0 THEN j + N + 1 ELSE j

InArray(j, N) == j >= -(N + 1) /\ j <= N

\* the row without the test "if i != 0"
RowIndicesUnguarded(i, N) ==
    {<<i, i>>, <<i, i - 1>>} \cup (IF i # N THEN {<<i, i + 1>>} ELSE {})

\* the indices row i of the loop of solve() uses on A, as the code writes them
RowIndices(i, N) ==
    {<<i, i>>} \cup (IF i # 0 THEN {<<i, i - 1>>} ELSE {})
               \cup (IF i # N THEN {<<i, i + 1>>} ELSE {})

\* A after the assignments of row i
AssembleRow(A, i, N) ==
    [ij \in DOMAIN A |->
        IF \E w \in RowIndices(i, N) :
              /\ InArray(w[2], N)
              /\ ij = <<NumpyIndex(w[1], N), NumpyIndex(w[2], N)>>
        THEN lhs(ij[1], ij[2])
        ELSE A[ij]]

\* solve(): entry
SolveBegin ==
    /\ fpc.pc = "idle"
    /\ nsolve < MaxSolve
    /\ nsolve' = nsolve + 1
    /\ fpc' = [pc |-> "loop", i |-> 0]
    /\ UNCHANGED <<fem, fres, writes, exa>>

\* solve(): one iteration of the loop; rhs may raise, and so may an index
\* outside the array
SolveRow ==
    /\ fpc.pc = "loop"
    /\ fpc.i <= fem.N
    /\ IF RhsRaises(fem)
       THEN /\ fres' = [op |-> "solve", out |-> "ValueError"]
            /\ fpc' = [pc |-> "idle", i |-> 0]
            /\ UNCHANGED <<fem, writes>>
       ELSE /\ writes' = writes \cup RowIndices(fpc.i, fem.N)
            /\ fem' = [fem EXCEPT !.d[fpc.i] = rhs(fpc.i),
                                  !.A = AssembleRow(@, fpc.i, fem.N)]
            /\ IF \A w \in RowIndices(fpc.i, fem.N) : InArray(w[2], fem.N)
               THEN fpc' = [fpc EXCEPT !.i = @ + 1] /\ fres' = fres
               ELSE /\ fpc' = [pc |-> "idle", i |-> 0]
                    /\ fres' = [op |-> "solve", out |-> "IndexError"]
    /\ UNCHANGED <<nsolve, exa>>

\* solve(): after the loop, np.linalg.solve either raises LinAlgError (a
\* singular A) or gives c; then sol and der are set
SolveFinish(ok) ==
    /\ fpc.pc = "loop"
    /\ fpc.i > fem.N
    /\ fpc' = [pc |-> "idle", i |-> 0]
    /\ IF ok
       THEN /\ fem' = [fem EXCEPT !.c = TRUE, !.sol = TRUE, !.der = TRUE]
            /\ fres' = [op |-> "solve", out |-> "None"]
       ELSE /\ fem' = fem
            /\ fres' = [op |-> "solve", out |-> "LinAlgError"]
    /\ UNCHANGED <<writes, nsolve, exa>>

\* a test of "A is still zero" in place of "self.sol is None"
NotAssembled(f) == \A ij \in DOMAIN f.A : f.A[ij] = 0

\* if not self.sol
NotSolved(f) == ~f.sol

\* what __call__ and H1_error do after their test of self.sol: calling
\* self.sol while it is None raises TypeError
Evaluate(f, value) ==
    IF NotSolved(f) THEN "None"
    ELSE IF f.sol THEN value ELSE "TypeError"

\* __call__(x)
FemCall ==
    /\ fpc.pc = "idle"
    /\ fres' = [op |-> "call", out |-> Evaluate(fem, "pair")]
    /\ UNCHANGED <<fem, fpc, writes, nsolve, exa>>

\* H1_error(u, u_x)
FemH1Error ==
    /\ fpc.pc = "idle"
    /\ fres' = [op |-> "H1_error", out |-> Evaluate(fem, "triple")]
    /\ UNCHANGED <<fem, fpc, writes, nsolve, exa>>

\* ---------------------------------------------- Exact_HelmholtzImpedance
\* the source argument defaults to None
ExactSources == Sources \cup {"None"}

\* uG(x): the closed form for 'const', the Green's function integral otherwise
uG(source) == IF source = "const" THEN "closed_form" ELSE "green_integral"

ExactUG ==
    /\ exa' = [exa EXCEPT !.uG = uG(exa.source)]
    /\ UNCHANGED <<fem, fpc, fres, writes, nsolve>>

InitFem ==
    /\ prob \in {p \in TrainProblems : p.penalty = 0}
    /\ VpinnInit
    /\ dres = [kind |-> "none", t |-> 0]
    /\ bnd = NoBoundary
    /\ pen = [kind |-> "none"]
    /\ fem \in {NewFem(N, src) : N \in 1 .. MaxN, src \in Sources}
    /\ fpc = [pc |-> "idle", i |-> 0]
    /\ fres = [op |-> "none", out |-> "none"]
    /\ writes = {}
    /\ nsolve = 0
    /\ exa \in {[source |-> src, uG |-> "none"] : src \in ExactSources}
    /\ NoSeedInit

NextFem ==
    \/ SolveBegin /\ UNCHANGED <<vpinnVars, dres, bnd, pen, seedVars>>
    \/ SolveRow /\ UNCHANGED <<vpinnVars, dres, bnd, pen, seedVars>>
    \/ \E ok \in BOOLEAN : SolveFinish(ok) /\ UNCHANGED <<vpinnVars, dres, bnd, pen, seedVars>>
    \/ FemCall /\ UNCHANGED <<vpinnVars, dres, bnd, pen, seedVars>>
    \/ FemH1Error /\ UNCHANGED <<vpinnVars, dres, bnd, pen, seedVars>>
    \/ ExactUG /\ UNCHANGED <<vpinnVars, dres, bnd, pen, seedVars>>

SpecFem == InitFem /\ [][NextFem]_vars

\* ------------------------------------------------- seeded construction
\* the seed argument: None (the default) or an integer
SeedArgs ==
    {[given |-> FALSE, value |-> 0]}
        \cup {[given |-> TRUE, value |-> v] : v \in 0 .. MaxSeed}

\* torch.manual_seed(s): the generator state the seed s stands for
manual_seed(s) == (3 * s + 1) % (MaxRng + 1)

\* the generator after one draw, and the number the draw gives
Advance(g) == (5 * g + 3) % (MaxRng + 1)

Drawn(g) == g % 4

\* if seed: torch.manual_seed(seed)  -- the generator the initialization uses
SeededGenerator(seed, g) ==
    IF seed.given /\ seed.value # 0 THEN manual_seed(seed.value) ELSE g

\* the three random initializations of layers = [1, 10, 2]: xavier_normal_
\* and uniform_ on the hidden layer, xavier_normal_ on the output layer
\* (zeros_ on its bias draws nothing)
InitialParams(g) ==
    [hidden_weight |-> Drawn(g),
     hidden_bias   |-> Drawn(Advance(g)),
     output_weight |-> Drawn(Advance(Advance(g))),
     output_bias   |-> 0]

\* VPINN_HelmholtzImpedance(..., seed = seed)
Construct(seed) ==
    /\ Len(built) < MaxBuilt
    /\ LET g == SeededGenerator(seed, rng)
       IN  /\ built' = Append(built, [seed |-> seed, params |-> InitialParams(g)])
           /\ rng' = Advance(Advance(Advance(g)))
    /\ UNCHANGED <<vpinnVars, dres, bnd, pen, femVars>>

InitSeed ==
    /\ prob \in {p \in TrainProblems : p.penalty = 0}
    /\ VpinnInit
    /\ dres = [kind |-> "none", t |-> 0]
    /\ bnd = NoBoundary
    /\ pen = [kind |-> "none"]
    /\ NoFemInit
    /\ rng \in 0 .. MaxRng
    /\ built = <<>>

NextSeed == \E seed \in SeedArgs : Construct(seed)

SpecSeed == InitSeed /\ [][NextSeed]_vars

\* ------------------------------------------------------------- claims
Range(q) == {q[i] : i \in 1 .. Len(q)}

\* the solver is idle after exactly two train_ calls, both of which returned
TwoCallsDone ==
    /\ frame.pc = "idle"
    /\ Len(calls) = 2
    /\ calls[1].status = "done"
    /\ calls[2].status = "done"

\* C1: on a fresh solver, train_(E1) then train_(E2), both returning, leave
\* the epoch counter at E1 + E2.
InvC1 == TwoCallsDone => epoch = calls[1].E + calls[2].E

\* C2: every train_(epochs = E) call that returns has applied exactly E
\* optimizer steps, and the epoch indices it went through start at the epoch
\* counter it was entered with.
InvC2 ==
    \A i \in 1 .. Len(calls) :
        calls[i].status = "done" =>
            /\ calls[i].steps = calls[i].E
            /\ calls[i].processed # <<>> => calls[i].processed[1] = calls[i].entry

\* One train_(epochs = E) call on a fresh solver, run to its return: the
\* epochs and losses it leaves in the history.  extra names epoch indices
\* that are recorded in addition to those the code records.
RECURSIVE LoopFrom(_, _, _, _, _, _)
LoopFrom(p, h, e, last, t, extra) ==
    IF e > last THEN h
    ELSE LoopFrom(p,
                  IF SnapshotDue(e, last) \/ e \in extra
                  THEN [epochs |-> Append(h.epochs, e),
                        losses |-> Append(h.losses, Loss(p, t))]
                  ELSE h,
                  e + 1, last, t + 1, extra)

SingleCallHistory(p, E, extra) ==
    LoopFrom(p, [epochs |-> <<>>, losses |-> <<>>], 0, LastIndex(E, 0), 0, extra)

EpochsAndLosses == [epochs |-> history.epochs, losses |-> history.losses]

\* C3 as stated: the history after train_(E1); train_(E2) is the history
\* after one train_(E1 + E2).
InvC3 ==
    TwoCallsDone =>
        EpochsAndLosses = SingleCallHistory(prob, calls[1].E + calls[2].E, {})

\* C3 as amended: the history after train_(E1); train_(E2) is the history of
\* one train_(E1 + E2) with the record of epoch E1, the final epoch of the
\* first call, added; it is the single call's history exactly when E1 is a
\* multiple of 10 or E2 = 0.
ThmC3 ==
    TwoCallsDone =>
        LET E1 == calls[1].E
            E2 == calls[2].E
        IN  /\ EpochsAndLosses = SingleCallHistory(prob, E1 + E2, {E1})
            /\ (EpochsAndLosses = SingleCallHistory(prob, E1 + E2, {}))
                   <=> (E1 % 10 = 0 \/ E2 = 0)

WitC3 ==
    /\ TwoCallsDone
    /\ calls[1].E % 10 # 0
    /\ calls[2].E > 0
    /\ calls[1].E + calls[2].E > 10
    /\ Len(history.epochs) = 4

\* C4: within a train_ call an epoch index gets a history record iff it is a
\* multiple of 10 or the last index of the call; a call that returns after
\* going through at least one epoch has recorded the last one it went
\* through, on a fresh and on a resumed solver alike.
RecordedIffDue(processed, recorded, last) ==
    \A i \in 1 .. Len(processed) :
        (processed[i] \in Range(recorded))
            <=> (processed[i] % 10 = 0 \/ processed[i] = last)

InvC5 == \A i \in 1 .. Len(history.losses) : history.losses[i] >= 0

\* C6: the penalty term is zero exactly when both impedance conditions of the
\* problem hold: -u_x(a) - i k u(a) = ga and +u_x(b) - i k u(b) = gb.
InvC6 ==
    pen.kind = "value" =>
        (pen.val = 0 <=> (ImpedanceAtA(prob, bnd) /\ ImpedanceAtB(prob, bnd)))

\* C10: deriv(n, x) raises for every n outside {0, 1, 2} before the
\* approximator is evaluated or any gradient taken, and for n in {0, 1, 2}
\* returns the real and imaginary parts of the n-th derivative at x.
NthDerivative(c, n, x) ==
    CASE n = 0 -> c[1] + c[2] * x + c[3] * x * x
      [] n = 1 -> c[2] + 2 * c[3] * x
      [] n = 2 -> 2 * c[3]

ThmC10 ==
    dres.kind = "called" =>
        IF dres.n \in {0, 1, 2}
        THEN /\ ~dres.out.raised
             /\ dres.out.re = NthDerivative(Params(dres.t).re, dres.n, dres.x)
             /\ dres.out.im = NthDerivative(Params(dres.t).im, dres.n, dres.x)
        ELSE /\ dres.out.raised
             /\ dres.out.fwd = 0
             /\ dres.out.grads = 0

WitC10 ==
    /\ dres.kind = "called"
    /\ dres.n = 3
    /\ dres.out.raised

\* C7: A is tridiagonal in every state: A[i][j] is zero wherever |i - j| > 1,
\* and solve() uses only the indices (i, i), (i, i - 1), (i, i + 1), all of
\* them inside 0 .. N.
ThmC7 ==
    /\ \A ij \in DOMAIN fem.A :
          (ij[1] - ij[2] > 1 \/ ij[2] - ij[1] > 1) => fem.A[ij] = 0
    /\ \A w \in writes :
          /\ w[1] \in Nodes(fem.N) /\ w[2] \in Nodes(fem.N)
          /\ w[2] \in {w[1] - 1, w[1], w[1] + 1}

WitC7 ==
    /\ nsolve = 2
    /\ fpc.pc = "idle"
    /\ fem.sol
    /\ fem.N >= 3
    /\ \A i \in Nodes(fem.N) : fem.A[<<i, i>>] # 0
    /\ fem.A[<<0, 1>>] # 0 /\ fem.A[<<fem.N, fem.N - 1>>] # 0

\* C8: while no solve() call has completed (self.sol is None), __call__ and
\* H1_error do not raise, return None and leave A, d, c, sol and der as they
\* were.
ThmC8 ==
    [][(fres' # fres /\ fres'.op \in {"call", "H1_error"} /\ ~fem.sol)
          => (fres'.out = "None" /\ fem' = fem)]_vars

\* an evaluator call that returned None after a solve() that was aborted by
\* np.linalg.solve, with A already assembled
WitC8 ==
    /\ fres.op \in {"call", "H1_error"}
    /\ fres.out = "None"
    /\ nsolve >= 1
    /\ writes # {}
    /\ ~fem.sol

\* C9: a source type outside {'const', 'func'} raises in every component that
\* takes one: rhs of the FEM solver and uG of the exact evaluator.
InvC9 ==
    /\ (fres.op = "solve" /\ fem.source \notin {"const", "func"})
          => fres.out = "ValueError"
    /\ (exa.uG # "none" /\ exa.source \notin {"const", "func"})
          => exa.uG = "ValueError"

\* C11: two solvers constructed with the same integer seed (0 included) have
\* the same initial parameters, whatever the global generator's state was
\* before each construction.
InvC11 ==
    \A i, j \in 1 .. Len(built) :
        (built[i].seed.given /\ built[i].seed = built[j].seed)
            => built[i].params = built[j].params

\* C12: epochs and losses of the history have the same length, and once
\* history['errors'] is not None each of its lists tot, sol and der has that
\* length too.
InvC12 ==
    /\ Len(history.epochs) = Len(history.losses)
    /\ history.errors.set =>
          /\ Len(history.errors.tot) = Len(history.epochs)
          /\ Len(history.errors.sol) = Len(history.epochs)
          /\ Len(history.errors.der) = Len(history.epochs)

\* C13: every optimizer step of train_ is taken with the approximator in
\* training mode, also after a snapshot that computed H1_error.
InvC13 ==
    /\ \A i \in 1 .. Len(frame.stepModes) : frame.stepModes[i]
    /\ \A c \in 1 .. Len(calls) :
          \A i \in 1 .. Len(calls[c].stepModes) : calls[c].stepModes[i]

\* C14: a train_ call without scheduler that enters its loop raises in its
\* first epoch, after that epoch's snapshot (when due) and optimizer step and
\* before the counter is incremented: the counter falls one behind the
\* optimizer steps applied, and the next call starts at the same epoch index.
RaisedCalls == {i \in 1 .. Len(calls) : calls[i].status = "raised"}

ThmC14 ==
    /\ opt_steps - epoch = Cardinality(RaisedCalls)
    /\ \A i \in 1 .. Len(calls) :
          LET c == calls[i]
          IN  /\ (~c.sched /\ c.entry <= c.last) => c.status = "raised"
              /\ c.status = "raised" =>
                    /\ ~c.sched
                    /\ c.steps = 1
                    /\ c.processed = <<c.entry>>
                    /\ c.recorded = IF c.entry % 10 = 0 \/ c.entry = c.last
                                    THEN <<c.entry>> ELSE <<>>
                    /\ i < Len(calls) =>
                          /\ calls[i + 1].entry = c.entry
                          /\ calls[i + 1].processed # <<>> =>
                                calls[i + 1].processed[1] = c.entry

WitC14 ==
    /\ frame.pc = "idle"
    /\ Len(calls) = 2
    /\ calls[1].status = "raised"
    /\ calls[2].status = "done"
    /\ calls[2].processed # <<>>
    /\ calls[2].processed[1] = calls[1].processed[1]
    /\ Len(history.epochs) >= 2
    /\ history.epochs[1] = history.epochs[2]
    /\ opt_steps = epoch + 1

====
